---- MODULE Spec2Model ----
(***************************************************************************)
(* Model of bookkeeper's SqliteRepository                                  *)
(* (src/bookkeeper/repository/sqlite_repository.py).                       *)
(*                                                                         *)
(* Two repository instances are open on one database file, one bound to   *)
(* Category and one bound to Expense, as simple_client.py constructs them. *)
(* The state is the content of the two tables, SQLite's AUTOINCREMENT      *)
(* bookkeeping, and the record of the last repository call: its argument,  *)
(* the caller's object after the call, the pk returned, the records        *)
(* returned, the error raised, and the content of the tables before it.    *)
(* The client persists its category tree when it starts; persist holds the *)
(* position of that walk.                                                  *)
(***************************************************************************)
EXTENDS Integers, Sequences, FiniteSets, TLC

VARIABLES categories, expenses, sqlite_sequence, addOrder, last, persist

vars == <<categories, expenses, sqlite_sequence, addOrder, last, persist>>

----------------------------------------------------------------------------
(* Bounds of the model *)

\* at most this many rows are ever inserted, over both tables
MaxInserts == 2

\* Python's None in an integer field, and SQL NULL in an integer column
NULL == -1

Names == {"Food", "Books"}
ParentRefs == {NULL, 1}
Amounts == {50, 100}
CategoryRefs == {NULL, 1, 2}
Comments == {"Lunch"}
\* values CURRENT_TIMESTAMP can take when a row is inserted
Timestamps == {1}
\* pk values a caller's object can carry before a call
ObjPks == {0, 1}
\* pk values a caller asks get and delete for
AskedPks == {1, 2}

\* the model classes a repository can be bound to
ModelClasses == {"Category", "Expense"}

\* a datetime object held by a caller's Expense
Datetime(t) == [kind |-> "datetime", t |-> t]
\* the text SQLite stores for CURRENT_TIMESTAMP
TimestampText(t) == [kind |-> "text", t |-> t]

CategoryObjs ==
    [type : {"Category"}, pk : ObjPks, name : Names, parent : ParentRefs]

ExpenseObjs ==
    [type : {"Expense"}, pk : ObjPks, amount : Amounts, category : CategoryRefs,
     expense_date : {Datetime(7)}, added_date : {Datetime(9)}, comment : Comments]

BudgetObjs ==
    [type : {"Budget"}, pk : {0}, budget : {0}]

----------------------------------------------------------------------------
(* The store *)

\* PRAGMA foreign_keys: off unless a connection turns it on, which
\* __init__ never does
ForeignKeysEnabled == FALSE

Max(S) == CHOOSE x \in S : \A y \in S : y <= x

\* rows of a table in the order a table scan visits them (by rowid)
RECURSIVE ScanOrder(_)
ScanOrder(rows) ==
    IF rows = {} THEN <<>>
    ELSE LET first == CHOOSE r \in rows : \A q \in rows : r.pk <= q.pk
         IN  <<first>> \o ScanOrder(rows \ {first})

\* the rowid a plain INTEGER PRIMARY KEY gives: one more than the largest
\* rowid stored, whatever was assigned before
NextRowid_LargestStored(rows, seq) ==
    Max({0} \cup {r.pk : r \in rows}) + 1

\* the rowid INTEGER PRIMARY KEY AUTOINCREMENT gives the next inserted row
NextRowid(rows, seq) ==
    Max({seq} \cup {r.pk : r \in rows}) + 1


\* a table row as the record type the repository builds from it
CategoryOf(row) ==
    [type |-> "Category", pk |-> row.pk, name |-> row.name, parent |-> row.parent]

ExpenseOf(row) ==
    [type |-> "Expense", pk |-> row.pk, amount |-> row.amount,
     category |-> row.category, expense_date |-> row.expense_date,
     added_date |-> row.added_date, comment |-> row.comment]

\* the rows of a scan as records of the repository's model class, in the
\* scan's order
RECURSIVE Records(_, _)
Records(model_class, rows) ==
    IF rows = <<>> THEN <<>>
    ELSE <<IF model_class = "Category" THEN CategoryOf(Head(rows))
           ELSE ExpenseOf(Head(rows))>> \o Records(model_class, Tail(rows))

\* what a mutating call hands back: the tables after it, the caller's
\* object after it, the pk returned (NULL when it returns None or raises)
\* and the error raised
Outcome(cats, exps, seq, order, obj, ret, err) ==
    [categories |-> cats, expenses |-> exps, sqlite_sequence |-> seq,
     addOrder |-> order, obj |-> obj, ret |-> ret, err |-> err]

\* a call that raises, or changes nothing, leaves the store as it is
NoChange(obj, ret, err) ==
    Outcome(categories, expenses, sqlite_sequence, addOrder, obj, ret, err)

\* a lookup by name that never finds a row: add would insert every time
get_category_by_name_Absent(name) ==
    <<>>

\* SELECT * FROM categories WHERE name=? ; fetchone()
get_category_by_name(name) ==
    LET found == ScanOrder({r \in categories : r.name = name})
    IN  IF found # <<>> THEN <<CategoryOf(found[1])>> ELSE <<>>

\* the declared reference categories(pk), checked only when foreign keys
\* are enabled on the connection
ReferenceHolds(ref) ==
    ~ForeignKeysEnabled \/ ref = NULL \/ \E r \in categories : r.pk = ref

\* an INSERT INTO categories that binds the name and leaves the parent NULL
InsertCategory_NoParent(obj) ==
    LET rowid == NextRowid(categories, sqlite_sequence.categories)
        row == [pk |-> rowid, name |-> obj.name, parent |-> NULL]
    IN  Outcome(categories \cup {row}, expenses,
                [sqlite_sequence EXCEPT !.categories = rowid],
                [addOrder EXCEPT !.categories = Append(@, rowid)],
                [obj EXCEPT !.pk = rowid], rowid, "none")

\* INSERT INTO categories (name, parent) VALUES (?, ?)
InsertCategory(obj) ==
    IF ~ReferenceHolds(obj.parent)
    THEN NoChange(obj, NULL, "IntegrityError")
    ELSE LET rowid == NextRowid(categories, sqlite_sequence.categories)
             row == [pk |-> rowid, name |-> obj.name, parent |-> obj.parent]
         IN  Outcome(categories \cup {row}, expenses,
                     [sqlite_sequence EXCEPT !.categories = rowid],
                     [addOrder EXCEPT !.categories = Append(@, rowid)],
                     [obj EXCEPT !.pk = rowid], rowid, "none")

\* INSERT INTO expenses (amount, category, comment) VALUES (?, ?, ?) ;
\* both date columns take DEFAULT CURRENT_TIMESTAMP, here now
InsertExpense(obj, now) ==
    IF obj.amount = NULL \/ obj.category = NULL \/ ~ReferenceHolds(obj.category)
    THEN NoChange(obj, NULL, "IntegrityError")
    ELSE LET rowid == NextRowid(expenses, sqlite_sequence.expenses)
             row == [pk |-> rowid, amount |-> obj.amount,
                     category |-> obj.category,
                     expense_date |-> TimestampText(now),
                     added_date |-> TimestampText(now),
                     comment |-> obj.comment]
         IN  Outcome(categories, expenses \cup {row},
                     [sqlite_sequence EXCEPT !.expenses = rowid],
                     [addOrder EXCEPT !.expenses = Append(@, rowid)],
                     [obj EXCEPT !.pk = rowid], rowid, "none")

\* SqliteRepository.add: dispatches on the object's class
add(obj, now) ==
    IF obj.type = "Category"
    THEN LET existing_category == get_category_by_name(obj.name)
         IN  IF existing_category # <<>>
             THEN NoChange(obj, existing_category[1].pk, "none")
             ELSE InsertCategory(obj)
    ELSE IF obj.type = "Expense"
    THEN InsertExpense(obj, now)
    ELSE NoChange(obj, NULL, "TypeError")

\* SqliteRepository.get: dispatches on the repository's model class;
\* <<>> is None
get(model_class, pk) ==
    IF model_class = "Category"
    THEN LET found == ScanOrder({r \in categories : pk # NULL /\ r.pk = pk})
         IN  IF found # <<>> THEN <<CategoryOf(found[1])>> ELSE <<>>
    ELSE LET found == ScanOrder({r \in expenses : pk # NULL /\ r.pk = pk})
         IN  IF found # <<>> THEN <<ExpenseOf(found[1])>> ELSE <<>>

\* the columns whose values are integers, where None binds as NULL
IntegerColumns == {"pk", "parent", "amount", "category"}

\* the SQL comparison  column = ?  : never true when either side is NULL
SqlEquals(column, stored, value) ==
    IF column \in IntegerColumns
    THEN stored # NULL /\ value # NULL /\ stored = value
    ELSE stored = value

\* the where argument of get_all: absent (None), or a mapping given as its
\* (key, value) pairs in the mapping's order
NoWhere == [given |-> FALSE, pairs |-> <<>>]

Where(pairs) == [given |-> TRUE, pairs |-> pairs]

\* " AND ".join(f"{key} = ?" ...) over the rows of a table
Matches(row, pairs) ==
    \A i \in 1..Len(pairs) : SqlEquals(pairs[i][1], row[pairs[i][1]], pairs[i][2])

\* SqliteRepository.get_all: dispatches on the repository's model class.
\* A mapping with no pairs yields "SELECT * FROM t WHERE ", which SQLite
\* refuses to parse.
get_all(model_class, where) ==
    IF where.given /\ where.pairs = <<>>
    THEN [rows |-> <<>>, err |-> "OperationalError"]
    ELSE IF model_class = "Category"
    THEN LET rows == ScanOrder({r \in categories : Matches(r, where.pairs)})
         IN  [rows |-> Records(model_class, rows), err |-> "none"]
    ELSE LET rows == ScanOrder({r \in expenses : Matches(r, where.pairs)})
         IN  [rows |-> Records(model_class, rows), err |-> "none"]

\* DELETE FROM categories WHERE pk=? : with foreign keys enabled the
\* expenses of the category go with it, and a category that another one
\* names as its parent cannot be deleted
DeleteCategory(pk) ==
    LET gone == {r \in categories : pk # NULL /\ r.pk = pk}
        kept == categories \ gone
    IN  IF ~ForeignKeysEnabled
        THEN Outcome(kept, expenses, sqlite_sequence, addOrder, [pk |-> pk],
                     NULL, "none")
        ELSE IF gone # {} /\ \E r \in kept : r.parent = pk
        THEN NoChange([pk |-> pk], NULL, "IntegrityError")
        ELSE Outcome(kept,
                     {e \in expenses : gone = {} \/ e.category # pk},
                     sqlite_sequence, addOrder, [pk |-> pk], NULL, "none")

\* a DELETE whose WHERE names the category column instead of pk
DeleteExpense_ByCategory(pk) ==
    Outcome(categories, {e \in expenses : ~(pk # NULL /\ e.category = pk)},
            sqlite_sequence, addOrder, [pk |-> pk], NULL, "none")

\* DELETE FROM expenses WHERE pk=?
DeleteExpense(pk) ==
    Outcome(categories, {e \in expenses : ~(pk # NULL /\ e.pk = pk)},
            sqlite_sequence, addOrder, [pk |-> pk], NULL, "none")

\* SqliteRepository.delete: dispatches on the repository's model class
delete(model_class, pk) ==
    IF model_class = "Category" THEN DeleteCategory(pk)
    ELSE IF model_class = "Expense" THEN DeleteExpense(pk)
    ELSE NoChange([pk |-> pk], NULL, "TypeError")

\* an UPDATE of categories that sets the name and forgets the parent
UpdateCategory_NameOnly(obj) ==
    Outcome({IF obj.pk # NULL /\ r.pk = obj.pk
             THEN [r EXCEPT !.name = obj.name] ELSE r : r \in categories},
            expenses, sqlite_sequence, addOrder, obj, NULL, "none")

\* UPDATE categories SET name=?, parent=? WHERE pk=?
UpdateCategory(obj) ==
    LET hit == {r \in categories : obj.pk # NULL /\ r.pk = obj.pk}
    IN  IF hit # {} /\ ~ReferenceHolds(obj.parent)
        THEN NoChange(obj, NULL, "IntegrityError")
        ELSE Outcome((categories \ hit) \cup
                       {[r EXCEPT !.name = obj.name, !.parent = obj.parent] : r \in hit},
                     expenses, sqlite_sequence, addOrder, obj, NULL, "none")

\* UPDATE expenses SET amount=?, category=?, comment=? WHERE pk=?
UpdateExpense(obj) ==
    LET hit == {e \in expenses : obj.pk # NULL /\ e.pk = obj.pk}
    IN  IF hit # {} /\ (obj.amount = NULL \/ obj.category = NULL
                         \/ ~ReferenceHolds(obj.category))
        THEN NoChange(obj, NULL, "IntegrityError")
        ELSE Outcome(categories,
                     (expenses \ hit) \cup
                       {[e EXCEPT !.amount = obj.amount, !.category = obj.category,
                                  !.comment = obj.comment] : e \in hit},
                     sqlite_sequence, addOrder, obj, NULL, "none")

\* SqliteRepository.update: dispatches on the object's class
update(obj) ==
    IF obj.type = "Category" THEN UpdateCategory(obj)
    ELSE IF obj.type = "Expense" THEN UpdateExpense(obj)
    ELSE NoChange(obj, NULL, "TypeError")

----------------------------------------------------------------------------
(* The calls a client makes *)

\* the where arguments clients pass to get_all
CategoryWheres ==
    {NoWhere, Where(<<>>)}
      \cup {Where(<<<<"name", n>>>>) : n \in Names}
      \cup {Where(<<<<"parent", p>>>>) : p \in ParentRefs}
      \cup {Where(<<<<"name", "Food">>, <<"parent", NULL>>>>)}

ExpenseWheres ==
    {NoWhere, Where(<<>>)}
      \cup {Where(<<<<"category", c>>>>) : c \in CategoryRefs \ {NULL}}
      \cup {Where(<<<<"category", 1>>, <<"pk", 2>>>>)}

Wheres(model_class) ==
    IF model_class = "Category" THEN CategoryWheres ELSE ExpenseWheres

\* the state after construction of both repositories on a new file:
\* CREATE TABLE IF NOT EXISTS has made two empty tables
Init ==
    /\ categories = {}
    /\ expenses = {}
    /\ sqlite_sequence = [categories |-> 0, expenses |-> 0]
    /\ addOrder = [categories |-> <<>>, expenses |-> <<>>]
    /\ last = [op |-> "init", repo |-> "Category", arg |-> [pk |-> 0],
               obj |-> [pk |-> 0], ret |-> NULL, rows |-> <<>>, err |-> "none",
               before |-> [categories |-> {}, expenses |-> {}]]
    /\ persist = [state |-> "idle", nodes |-> <<>>, todo |-> <<>>,
                  created |-> {}, calls |-> <<>>, before |-> {}]

\* the content of the tables, kept with a call's record as the content the
\* call found
Tables == [categories |-> categories, expenses |-> expenses]

\* the store takes what a mutating call leaves, and the call is recorded
Commit(op, repo, arg, out) ==
    /\ categories' = out.categories
    /\ expenses' = out.expenses
    /\ sqlite_sequence' = out.sqlite_sequence
    /\ addOrder' = out.addOrder
    /\ last' = [op |-> op, repo |-> repo, arg |-> arg, obj |-> out.obj,
                ret |-> out.ret, rows |-> <<>>, err |-> out.err,
                before |-> Tables]

Inserted == sqlite_sequence.categories + sqlite_sequence.expenses

Add(repo, obj, now) ==
    LET out == add(obj, now)
    IN  /\ out.sqlite_sequence # sqlite_sequence => Inserted < MaxInserts
        /\ Commit("add", repo, obj, out)
        /\ UNCHANGED persist

Update(repo, obj) ==
    Commit("update", repo, obj, update(obj)) /\ UNCHANGED persist

Delete(repo, pk) ==
    Commit("delete", repo, [pk |-> pk], delete(repo, pk)) /\ UNCHANGED persist

Get(repo, pk) ==
    /\ last' = [op |-> "get", repo |-> repo, arg |-> [pk |-> pk],
                obj |-> [pk |-> pk], ret |-> NULL, rows |-> get(repo, pk),
                err |-> "none", before |-> Tables]
    /\ UNCHANGED <<categories, expenses, sqlite_sequence, addOrder, persist>>

GetAll(repo, where) ==
    LET out == get_all(repo, where)
    IN  /\ last' = [op |-> "get_all", repo |-> repo, arg |-> where,
                    obj |-> where, ret |-> NULL, rows |-> out.rows,
                    err |-> out.err, before |-> Tables]
        /\ UNCHANGED <<categories, expenses, sqlite_sequence, addOrder, persist>>

Next ==
    \/ \E repo \in ModelClasses, obj \in CategoryObjs \cup ExpenseObjs \cup BudgetObjs,
          now \in Timestamps : Add(repo, obj, now)
    \/ \E repo \in ModelClasses, obj \in CategoryObjs \cup ExpenseObjs \cup BudgetObjs :
          Update(repo, obj)
    \/ \E repo \in ModelClasses, pk \in AskedPks : Delete(repo, pk)
    \/ \E repo \in ModelClasses, pk \in AskedPks : Get(repo, pk)
    \/ \E repo \in ModelClasses : \E where \in Wheres(repo) : GetAll(repo, where)

Spec == Init /\ [][Next]_vars

----------------------------------------------------------------------------
(* The category tree the client persists when it starts *)

\* a node of a parsed forest: a name and its children in the order given
Node(name, children) == [name |-> name, children |-> children]

Leaf(name) == Node(name, <<>>)

\* the tree of simple_client.py
ClientForest ==
    <<Node("Food", <<Node("Meat", <<Leaf("RawMeat"), Leaf("MeatProducts")>>),
                     Leaf("Sweets")>>),
      Leaf("Books"), Leaf("Clothes")>>

ExampleForest ==
    <<Node("Food", <<Leaf("Meat"), Leaf("Sweets")>>), Leaf("Books")>>

\* one name under two parents
RepeatedNameForest ==
    <<Node("Food", <<Leaf("Meat")>>), Node("Books", <<Leaf("Meat")>>)>>

\* names no client adds on its own
MeatForest ==
    <<Node("Meat", <<Node("RawMeat", <<Leaf("MeatProducts")>>)>>)>>

Forests == {ClientForest, ExampleForest, RepeatedNameForest, MeatForest}

\* the pre-order walk of a forest: each node with its position in the walk
\* as id and the id of its parent node (0 for a root), after the nodes
\* already walked
RECURSIVE Walk(_, _, _)
Walk(forest, parent, walked) ==
    IF forest = <<>> THEN walked
    ELSE LET id == Len(walked) + 1
             node == [id |-> id, name |-> Head(forest).name, parent |-> parent]
         IN  Walk(Tail(forest), parent,
                  Walk(Head(forest).children, id, Append(walked, node)))

\* the pk add returned for a node already persisted; None for the parent
\* of a root
ResolvedPk(id) ==
    IF \E c \in persist.created : c.id = id
    THEN (CHOOSE c \in persist.created : c.id = id).pk
    ELSE NULL

\* the client starts: the forest is to be persisted, nothing is yet
StartPersist(forest) ==
    /\ persist.state = "idle"
    /\ persist' = [state |-> "running", nodes |-> Walk(forest, 0, <<>>),
                   todo |-> Walk(forest, 0, <<>>), created |-> {},
                   calls |-> <<>>, before |-> categories]
    /\ UNCHANGED <<categories, expenses, sqlite_sequence, addOrder, last>>

\* the next node of the walk is added to the category repository with the
\* pk resolved for its parent; an error of add ends the walk
PersistNode(now) ==
    /\ persist.state = "running"
    /\ LET node == Head(persist.todo)
           obj == [type |-> "Category", pk |-> 0, name |-> node.name,
                   parent |-> ResolvedPk(node.parent)]
           out == add(obj, now)
       IN  /\ Commit("add", "Category", obj, out)
           /\ persist' =
                 [persist EXCEPT
                    !.todo = Tail(@),
                    !.created = @ \cup {[id |-> node.id, pk |-> out.ret]},
                    !.calls = Append(@, node.id),
                    !.state = IF out.err # "none" THEN "failed"
                              ELSE IF Tail(persist.todo) = <<>> THEN "done"
                              ELSE "running"]

\* a database file that earlier runs have left categories in, then a start
\* of the client
TreeNext ==
    \/ /\ persist.state = "idle"
       /\ \E obj \in CategoryObjs, now \in Timestamps : Add("Category", obj, now)
    \/ /\ persist.state = "idle"
       /\ \E pk \in AskedPks : Delete("Category", pk)
    \/ \E forest \in Forests : StartPersist(forest)
    \/ \E now \in Timestamps : PersistNode(now)

TreeSpec == Init /\ [][TreeNext]_vars

----------------------------------------------------------------------------
(* Vocabulary of the properties *)

\* the errors of the specification, as the Python exceptions that carry them
InvalidArgument == "ValueError"

TypeMismatch == "TypeError"

StoreErrors == {"IntegrityError", "OperationalError"}

Table(model_class) ==
    IF model_class = "Category" THEN categories ELSE expenses

TableBefore(model_class) ==
    IF model_class = "Category" THEN last.before.categories
    ELSE last.before.expenses

\* the pks the add calls have created in a table, in the order of the calls
Created(model_class) ==
    IF model_class = "Category" THEN addOrder.categories ELSE addOrder.expenses

\* the last call was op on a record of the given type
CalledWith(op, type) ==
    last.op = op /\ last.arg.type = type

\* the last call was op, on the repository bound to the type, on a record
\* of that type
CalledOnBound(op, type) ==
    CalledWith(op, type) /\ last.repo = type

\* the last call left both tables as it found them
StoreUnchanged ==
    categories = last.before.categories /\ expenses = last.before.expenses

----------------------------------------------------------------------------
(* C1: adding a Category whose name is already stored returns the pk of a
   stored row of that name, creates no row and leaves every stored row (its
   parent included) as it was, whatever parent the new object names; and
   after any add of a Category, the next add of that name returns the same
   pk. *)
C1_AddCategoryIdempotentByName ==
    CalledWith("add", "Category")
      => /\ (\E r \in last.before.categories : r.name = last.arg.name)
              => /\ last.err = "none"
                 /\ \E r \in last.before.categories :
                       r.name = last.arg.name /\ r.pk = last.ret
                 /\ StoreUnchanged
         /\ \A again \in CategoryObjs, now \in Timestamps :
               again.name = last.arg.name
                 => LET second == add(again, now)
                    IN  /\ second.err = "none" /\ second.ret = last.ret
                        /\ second.categories = categories

\* C1 witness: an add has returned the pk of a row that was stored before
\* the call under the same name, with a parent other than the one the added
\* object names.
C1_Witness ==
    /\ CalledWith("add", "Category") /\ last.err = "none"
    /\ \E r \in last.before.categories :
          r.name = last.arg.name /\ r.pk = last.ret /\ r.parent # last.arg.parent

(* C2: after delete(C.pk) on the category repository for a stored category
   C, get on the expense repository returns None for every expense that
   referred to C. *)
C2_CascadeDelete ==
    (/\ last.op = "delete" /\ last.repo = "Category"
     /\ \E c \in last.before.categories : c.pk = last.arg.pk)
      => \A e \in last.before.expenses :
            e.category = last.arg.pk => get("Expense", e.pk) = <<>>

(* C3: after an add that returns k the caller's object carries pk = k, on
   the insert path and on the name-already-exists path alike. *)
C3_AddSetsPk ==
    (last.op = "add" /\ last.err = "none") => last.obj.pk = last.ret

(* C4: add, on the repository bound to Expense, of an Expense that already
   carries a non-zero pk (and names a category) fails with InvalidArgument
   and inserts no row. *)
C4_AddRejectsPresetPk ==
    (/\ CalledOnBound("add", "Expense")
     /\ last.arg.pk # 0 /\ last.arg.category # NULL)
      => last.err = InvalidArgument /\ StoreUnchanged

(* C5: update, on the repository bound to its type, of a record whose pk is
   zero fails with InvalidArgument and leaves every stored row unchanged. *)
C5_UpdateRejectsUnpersisted ==
    (/\ last.op = "update" /\ last.arg.type = last.repo
     /\ last.arg.pk = 0)
      => last.err = InvalidArgument /\ StoreUnchanged

\* the fields of a record other than its pk
Fields(type) ==
    IF type = "Category" THEN {"name", "parent"}
    ELSE {"amount", "category", "expense_date", "added_date", "comment"}

(* C6: get(add(r)) on the repository bound to r's type, for a Category or
   an Expense r with pk unset, returns a record whose every field other than
   pk equals r's, whether or not r's name was already stored. *)
C6_RoundTrip ==
    (/\ last.op = "add" /\ last.err = "none"
     /\ last.arg.type = last.repo /\ last.arg.pk = 0)
      => LET got == get(last.repo, last.ret)
         IN  /\ got # <<>>
             /\ \A f \in Fields(last.arg.type) : got[1][f] = last.arg[f]

(* C7: add or update of a record whose type is not the one the repository
   is bound to fails with TypeMismatch and changes no table. *)
C7_MismatchedTypeRejected ==
    (/\ last.op \in {"add", "update"}
     /\ last.arg.type \in ModelClasses /\ last.arg.type # last.repo)
      => last.err = TypeMismatch /\ StoreUnchanged

\* ref named no stored category when the last call was made
Dangling(ref) == \A c \in last.before.categories : c.pk # ref

(* C8: add of a Category (of a name not yet stored) whose parent is set and
   names no stored category, and add of an Expense whose category names no
   stored category, each on the repository bound to its type, raise a store
   error and create no row. *)
C8_ReferencesChecked ==
    (\/ /\ CalledOnBound("add", "Category")
        /\ last.arg.parent # NULL /\ Dangling(last.arg.parent)
        /\ \A c \in last.before.categories : c.name # last.arg.name
     \/ CalledOnBound("add", "Expense") /\ Dangling(last.arg.category))
      => last.err \in StoreErrors /\ StoreUnchanged

\* the records get_all is to return: those the add calls created, in the
\* order of those calls, that are still stored and whose fields equal every
\* value of where (None equal to None, as == compares in Python)
Expected(model_class, where) ==
    LET table == Table(model_class)
        Row(pk) == CHOOSE r \in table : r.pk = pk
        Keep(pk) ==
            /\ \E r \in table : r.pk = pk
            /\ \A i \in 1..Len(where.pairs) :
                  Row(pk)[where.pairs[i][1]] = where.pairs[i][2]
        pks == SelectSeq(Created(model_class), Keep)
        RECURSIVE InOrder(_)
        InOrder(left) ==
            IF left = <<>> THEN <<>>
            ELSE <<IF model_class = "Category" THEN CategoryOf(Row(Head(left)))
                   ELSE ExpenseOf(Row(Head(left)))>> \o InOrder(Tail(left))
    IN  InOrder(pks)

(* C9: get_all with no where, or with a where of one or more pairs, returns
   exactly the stored records whose fields equal every pair, in the order of
   the add calls that created them. *)
C9_GetAllFiltersInInsertionOrder ==
    (last.op = "get_all" /\ (last.arg.given => last.arg.pairs # <<>>))
      => last.err = "none" /\ last.rows = Expected(last.repo, last.arg)

(* C10: delete(pk) never raises; afterwards get(pk) returns None, every row
   of the bound table with another pk is as it was, and when no row had that
   pk the store is unchanged. *)
C10_DeleteRemovesOnlyThatRow ==
    last.op = "delete"
      => /\ last.err = "none"
         /\ get(last.repo, last.arg.pk) = <<>>
         /\ {r \in Table(last.repo) : r.pk # last.arg.pk}
              = {r \in TableBefore(last.repo) : r.pk # last.arg.pk}
         /\ (\A r \in TableBefore(last.repo) : r.pk # last.arg.pk)
               => StoreUnchanged

\* C10 witness: a delete has removed a stored row, and another row of the
\* same table is still stored.
C10_Witness ==
    /\ last.op = "delete" /\ last.err = "none"
    /\ \E r \in TableBefore(last.repo) : r.pk = last.arg.pk
    /\ Table(last.repo) # {}

\* the fields update writes
Mutable(type) ==
    IF type = "Category" THEN {"name", "parent"}
    ELSE {"amount", "category", "comment"}

(* C11: update, on the repository bound to its type, of a record (an
   Expense naming a category) whose pk is that of a stored row raises
   nothing; afterwards get(obj.pk) returns obj's mutable fields under the
   same pk, with an expense's expense_date and added_date as they were
   stored, and every other row of both tables is as it was. *)
C11_UpdateReplacesMutableFields ==
    (/\ last.op = "update" /\ last.arg.type = last.repo
     /\ \E r \in TableBefore(last.repo) : r.pk = last.arg.pk
     /\ last.repo = "Expense" => last.arg.category # NULL)
      => LET got == get(last.repo, last.arg.pk)
             old == CHOOSE r \in TableBefore(last.repo) : r.pk = last.arg.pk
         IN  /\ last.err = "none"
             /\ got # <<>>
             /\ got[1].pk = last.arg.pk
             /\ \A f \in Mutable(last.repo) : got[1][f] = last.arg[f]
             /\ last.repo = "Expense"
                   => /\ got[1].expense_date = old.expense_date
                      /\ got[1].added_date = old.added_date
             /\ {r \in categories : last.repo = "Category" => r.pk # last.arg.pk}
                  = {r \in last.before.categories :
                        last.repo = "Category" => r.pk # last.arg.pk}
             /\ {r \in expenses : last.repo = "Expense" => r.pk # last.arg.pk}
                  = {r \in last.before.expenses :
                        last.repo = "Expense" => r.pk # last.arg.pk}
             /\ Cardinality(Table(last.repo))
                  = Cardinality(TableBefore(last.repo))

\* C11 witness: an update has changed the parent of a stored category while
\* another category is stored.
C11_Witness ==
    /\ last.op = "update" /\ last.repo = "Category" /\ last.err = "none"
    /\ last.arg.type = "Category"
    /\ \E r \in last.before.categories :
          r.pk = last.arg.pk /\ r.parent # last.arg.parent
    /\ \E r \in categories : r.pk # last.arg.pk

\* the walk has called add once per node, each node after its parent
CalledInPreOrder ==
    /\ Len(persist.calls) = Len(persist.nodes)
    /\ \A i \in 1..Len(persist.calls) :
          LET node == persist.nodes[persist.calls[i]]
          IN  /\ \A j \in 1..Len(persist.calls) :
                    persist.calls[j] = persist.calls[i] => j = i
              /\ node.parent # 0
                    => \E j \in 1..(i - 1) : persist.calls[j] = node.parent

\* every node has the row add resolved for it, of its name, whose parent is
\* the pk resolved for its parent node, and None for a root
ParentsResolved ==
    \A i \in 1..Len(persist.nodes) :
       LET node == persist.nodes[i]
       IN  \E r \in categories :
              /\ r.pk = ResolvedPk(node.id)
              /\ r.name = node.name
              /\ r.parent = IF node.parent = 0 THEN NULL
                            ELSE ResolvedPk(node.parent)

\* food{meat, sweets}, books on an empty repository leaves exactly 4 rows
ExampleLeavesFourRows ==
    (persist.nodes = Walk(ExampleForest, 0, <<>>) /\ persist.before = {})
      => Cardinality(categories) = 4

(* C12 as stated: once any forest is persisted into the category
   repository, add has been called in pre-order, every node has a row whose
   parent is the pk of its parent node's row, every root has a row with no
   parent, and the example forest on an empty repository leaves 4 rows. *)
C12_TreePersistResolvesParents ==
    persist.state = "done"
      => CalledInPreOrder /\ ParentsResolved /\ ExampleLeavesFourRows

\* the names of the forest are pairwise distinct and none of them was
\* stored when the walk started
FreshNames ==
    /\ \A i, j \in 1..Len(persist.nodes) :
          persist.nodes[i].name = persist.nodes[j].name => i = j
    /\ \A i \in 1..Len(persist.nodes), r \in persist.before :
          r.name # persist.nodes[i].name

(* C12 amended: once a forest of pairwise distinct names, none of them
   stored before, is persisted, add has been called in pre-order, every node
   has a row whose parent is the pk of its parent node's row, every root has
   a row with no parent, one row per node has been created, and the example
   forest on an empty repository leaves 4 rows. *)
C12_TreePersistFreshNames ==
    (persist.state = "done" /\ FreshNames)
      => /\ CalledInPreOrder /\ ParentsResolved /\ ExampleLeavesFourRows
         /\ Cardinality(categories)
              = Cardinality(persist.before) + Len(persist.nodes)

\* C12 witness: the forest of three levels has been persisted into a
\* repository that held a category of another name.
C12_Witness ==
    /\ persist.state = "done" /\ FreshNames
    /\ persist.nodes = Walk(MeatForest, 0, <<>>)
    /\ persist.before # {}
    /\ \E r \in categories : r.name = "MeatProducts" /\ r.parent # NULL

(* C13: the pks of a table are unique, and an add that creates a row returns
   a pk greater than every pk assigned in that table before, those of
   deleted rows included; the first row created in a table gets 1 and the
   second 2. *)
C13_PksNeverReused ==
    /\ \A r, q \in categories : r.pk = q.pk => r = q
    /\ \A r, q \in expenses : r.pk = q.pk => r = q
    /\ (last.op = "add" /\ last.err = "none" /\ ~StoreUnchanged)
          => LET assigned == Created(last.arg.type)
                 calls == Len(assigned)
             IN  /\ assigned[calls] = last.ret
                 /\ \A i \in 1..(calls - 1) : assigned[i] < last.ret
                 /\ \A r \in TableBefore(last.arg.type) : r.pk < last.ret
                 /\ calls = 1 => last.ret = 1
                 /\ calls = 2 => last.ret = 2

\* C13 witness: an add has created the second row of a table whose first
\* row had been deleted.
C13_Witness ==
    /\ last.op = "add" /\ last.err = "none" /\ ~StoreUnchanged
    /\ TableBefore(last.arg.type) = {}
    /\ last.ret = 2

(* C14: get_all with a where mapping of no pairs raises nothing and returns
   every stored record of the bound type, as get_all with no where does. *)
C14_GetAllEmptyMapping ==
    (last.op = "get_all" /\ last.arg.given /\ last.arg.pairs = <<>>)
      => /\ last.err = "none"
         /\ last.rows = get_all(last.repo, NoWhere).rows

====
